---- MODULE Spec2Model ----
(***************************************************************************)
(* The offline-first synchronisation engine of Expenses-Wallet-BE.       *)
(*                                                                         *)
(* The repository holds two revisions of the sync service:                *)
(*   "ts"  : src/src/app/services/sync.service.ts                         *)
(*   "rev" : src/unnamed/part_005                                         *)
(* The variable `variant` fixes, for a whole behaviour, which revision    *)
(* serves the requests; a property checked under Spec holds of both.      *)
(*                                                                         *)
(* Documents are JavaScript objects: functions from field names to        *)
(* values, a field being absent when it is not in the DOMAIN.  The field  *)
(* "body" stands for the ordinary payload fields of an expense or a       *)
(* category (description, amount, title, ...).                            *)
(***************************************************************************)
EXTENDS Integers, Sequences, FiniteSets, TLC

VARIABLES variant, store, log, meta, now, ops, last, calls, metadatas, limiter

vars == <<variant, store, log, meta, now, ops, last, calls, metadatas, limiter>>

\* the requests in flight and the SyncMetadata collection they work on, the
\* state of the specifications that interleave the steps of concurrent calls,
\* and the rate limiter in front of the routes: what a call that runs to its
\* end in one step leaves alone
concurrent == <<calls, metadatas, limiter>>

(***************************** bounds **************************************)
MaxTime == 2
MaxOps == 3
MaxBatch == 1
MaxInVersion == 2
MaxMixedBatch == 2
MaxDay == 3
MaxDays == 2
MaxClock == 4
MaxSeen == 4
MaxLimit == 2

(***************************** domains *************************************)
Variants == {"ts", "rev"}
Users == {"u1", "u2"}
IdSeq == <<"i1", "i2", "i3">>
Ids == {IdSeq[n] : n \in DOMAIN IdSeq}
ClientIds == {"i1", "i2"}
Bodies == {"a", "b"}
StoreTypes == {"expense", "category"}

\* new Date(undefined).getTime(): every comparison with it is false
NaN == 0 - 1

Empty == [k \in {} |-> 0]

(*********************** JavaScript object helpers *************************)
Has(o, k) == k \in DOMAIN o

\* { ...a, ...b }
Spread(a, b) == [k \in DOMAIN a \cup DOMAIN b |-> IF k \in DOMAIN b THEN b[k] ELSE a[k]]

\* const { k1, k2, ...rest } = o
Rest(o, ks) == [k \in DOMAIN o \ ks |-> o[k]]

\* o.k || d  for a numeric field (absent and 0 are falsy)
NumOr(o, k, d) == IF Has(o, k) /\ o[k] # 0 THEN o[k] ELSE d

\* a > b on getTime() values
TimeGt(a, b) == a # NaN /\ b # NaN /\ a > b

\* truthiness of entity._isDeleted
Truthy(o, k) == Has(o, k) /\ o[k] = TRUE

(****************************** the store **********************************)
\* Model.findOne({ _id, user }) finds a document
Found(st, t, id, u) == <<t, id>> \in DOMAIN st /\ st[<<t, id>>].user = u

\* the _id mongoose generates for a new document: unused in the collection
\* and different from whatever the client sent
FreshIds(st, t, avoid) == {n \in DOMAIN IdSeq : <<t, IdSeq[n]>> \notin DOMAIN st /\ IdSeq[n] # avoid}

FreshId(st, t, avoid) ==
    LET ns == FreshIds(st, t, avoid)
    IN  IdSeq[CHOOSE n \in ns : \A m \in ns : n <= m]

\* Model.updateOne(filter, { $set: upd }) with { timestamps: true }:
\* createdAt is immutable, updatedAt is set by mongoose
ApplySet(doc, upd, t) ==
    Spread(doc, Spread(Rest(upd, {"createdAt", "updatedAt", "_entityType"}), [updatedAt |-> t]))

\* new Model(fields).save(): schema defaults, then the timestamps
NewDoc(fields, t) ==
    LET created == IF Has(fields, "createdAt") THEN fields.createdAt ELSE t
    IN  Spread(Spread([_isDeleted |-> FALSE], Rest(fields, {"_id", "_entityType"})),
               [createdAt |-> created, updatedAt |-> created])

(************************** conflict predicate *****************************)
hasConflictMutGe(existing, incoming) ==
    LET existingTime == IF Has(existing, "_lastModified") THEN existing._lastModified
                        ELSE existing.updatedAt
        incomingTime == IF Has(incoming, "_lastModified") THEN incoming._lastModified ELSE NaN
    IN  TimeGt(existingTime, incomingTime) /\ NumOr(existing, "_version", 0) >= NumOr(incoming, "_version", 0)

hasConflictMutNonStrict(existing, incoming) ==
    LET existingTime == IF Has(existing, "_lastModified") THEN existing._lastModified
                        ELSE existing.updatedAt
        incomingTime == IF Has(incoming, "_lastModified") THEN incoming._lastModified ELSE NaN
    IN  /\ existingTime # NaN /\ incomingTime # NaN /\ existingTime >= incomingTime
        /\ NumOr(existing, "_version", 0) >= NumOr(incoming, "_version", 0)

hasConflict(existing, incoming) ==
    LET existingTime == IF Has(existing, "_lastModified") THEN existing._lastModified
                        ELSE existing.updatedAt
        incomingTime == IF Has(incoming, "_lastModified") THEN incoming._lastModified ELSE NaN
    IN  TimeGt(existingTime, incomingTime) /\ NumOr(existing, "_version", 0) > NumOr(incoming, "_version", 0)

(************************** per-entity handlers ****************************)
\* the collection a push names, "" when the switch falls to its default
ModelOf(v, entityType) ==
    CASE entityType = "expense" -> "expense"
      [] entityType = "category" -> "category"
      [] entityType = "outcome" /\ v = "rev" -> "expense"
      [] OTHER -> ""

\* the rest of the destructuring at the head of processEntity
EntityData(v, entity) ==
    IF v = "ts"
    THEN Rest(entity, {"_entityType", "_id", "_clientId", "_version", "_lastModified"})
    ELSE Rest(entity, {"_entityType", "_id", "_version", "_lastModified", "_isDeleted"})

\* the version argument processEntity hands to handleUpdate
UpdateVersionArg(v, entity) ==
    IF v = "ts"
    THEN (IF Has(entity, "_version") THEN entity._version ELSE 0)
    ELSE NumOr(entity, "_version", 1)

\* the _version handleUpdate writes
handleUpdateVersion(v, version) ==
    IF v = "ts" THEN (IF version # 0 THEN version ELSE 0) + 1 ELSE version + 1

handleUpdateMutGuarded(v, st, t, id, u, data, version, time) ==
    IF Found(st, t, id, u) /\ st[<<t, id>>]._version <= version
    THEN [st EXCEPT ![<<t, id>>] =
            ApplySet(@, Spread(data, [_syncStatus |-> "synced",
                                      _lastModified |-> time,
                                      _version |-> handleUpdateVersion(v, version)]), time)]
    ELSE st

handleUpdate(v, st, t, id, u, data, version, time) ==
    IF Found(st, t, id, u)
    THEN [st EXCEPT ![<<t, id>>] =
            ApplySet(@, Spread(data, [_syncStatus |-> "synced",
                                      _lastModified |-> time,
                                      _version |-> handleUpdateVersion(v, version)]), time)]
    ELSE st

handleDeleteMutBump(st, t, id, u, time) ==
    IF Found(st, t, id, u)
    THEN [st EXCEPT ![<<t, id>>] =
            ApplySet(@, [_isDeleted |-> TRUE, _syncStatus |-> "synced", _lastModified |-> time,
                         _version |-> @._version + 1], time)]
    ELSE st

handleDeleteMutUpsert(st, t, id, u, time) ==
    IF Found(st, t, id, u)
    THEN [st EXCEPT ![<<t, id>>] =
            ApplySet(@, [_isDeleted |-> TRUE, _syncStatus |-> "synced", _lastModified |-> time], time)]
    ELSE IF <<t, id>> \in DOMAIN st THEN st
    ELSE [k \in DOMAIN st \cup {<<t, id>>} |->
            IF k = <<t, id>>
            THEN NewDoc([user |-> u, _isDeleted |-> TRUE, _syncStatus |-> "synced",
                         _lastModified |-> time, _version |-> 1], time)
            ELSE st[k]]

handleDelete(st, t, id, u, time) ==
    IF Found(st, t, id, u)
    THEN [st EXCEPT ![<<t, id>>] =
            ApplySet(@, [_isDeleted |-> TRUE, _syncStatus |-> "synced", _lastModified |-> time], time)]
    ELSE st

\* the fields handleCreate gives the new document
handleCreateFields(v, data, u, entity, time) ==
    LET base == Spread(data, [user |-> u, _syncStatus |-> "synced",
                              _lastModified |-> time, _version |-> 1])
    IN  IF v = "ts" /\ Has(entity, "_clientId")
        THEN Spread(base, [_clientId |-> entity._clientId])
        ELSE base

\* the _id the new document is saved under
handleCreateId(v, st, t, entity) ==
    IF v = "rev" THEN entity._id ELSE FreshId(st, t, entity._id)

\* [store, threw, overflow]: save() throws on a duplicate _id; overflow marks
\* that the modelled id space has no unused id left to generate
handleCreate(v, st, t, data, u, entity, time) ==
    IF v = "ts" /\ FreshIds(st, t, entity._id) = {}
    THEN [store |-> st, threw |-> FALSE, overflow |-> TRUE]
    ELSE LET id == handleCreateId(v, st, t, entity)
         IN  IF <<t, id>> \in DOMAIN st
             THEN [store |-> st, threw |-> TRUE, overflow |-> FALSE]
             ELSE [store |-> [k \in DOMAIN st \cup {<<t, id>>} |->
                                IF k = <<t, id>>
                                THEN NewDoc(handleCreateFields(v, data, u, entity, time), time)
                                ELSE st[k]],
                   threw |-> FALSE, overflow |-> FALSE]

\* the conflict branch of processEntity: nothing is written, the incoming
\* entity goes back with the stored document as _conflictData
conflictResultMutMark(st, t, id, entity) ==
    [store |-> [st EXCEPT ![<<t, id>>] = Spread(@, [_syncStatus |-> "conflict"])],
     conflict |-> TRUE,
     entity |-> Spread(entity, [_conflictData |-> st[<<t, id>>]]),
     threw |-> FALSE, overflow |-> FALSE, did |-> "conflict"]

conflictResult(st, t, id, entity) ==
    [store |-> st, conflict |-> TRUE,
     entity |-> Spread(entity, [_conflictData |-> st[<<t, id>>]]),
     threw |-> FALSE, overflow |-> FALSE, did |-> "conflict"]

\* processEntity: [store, conflict, entity, threw, overflow, did], did naming
\* the branch taken
processEntity(v, st, u, entity, time) ==
    LET t == ModelOf(v, entity._entityType)
        id == entity._id
        data == EntityData(v, entity)
    IN  IF t = ""
        THEN [store |-> st, conflict |-> FALSE, entity |-> entity, threw |-> TRUE,
              overflow |-> FALSE, did |-> "unknown-type"]
        ELSE IF Found(st, t, id, u) /\ hasConflict(st[<<t, id>>], entity)
        THEN conflictResult(st, t, id, entity)
        ELSE IF Truthy(entity, "_isDeleted")
        THEN [store |-> handleDelete(st, t, id, u, time), conflict |-> FALSE, entity |-> entity,
              threw |-> FALSE, overflow |-> FALSE,
              did |-> IF Found(st, t, id, u) THEN "delete" ELSE "delete-missing"]
        ELSE IF Found(st, t, id, u)
        THEN [store |-> handleUpdate(v, st, t, id, u, data, UpdateVersionArg(v, entity), time),
              conflict |-> FALSE, entity |-> entity, threw |-> FALSE, overflow |-> FALSE,
              did |-> "update"]
        ELSE LET c == handleCreate(v, st, t, data, u, entity, time)
             IN  [store |-> c.store, conflict |-> FALSE, entity |-> entity,
                  threw |-> c.threw, overflow |-> c.overflow,
                  did |-> IF c.threw THEN "create-failed" ELSE "create"]

\* processEntity up to its first write: the findOne and the conflict check,
\* which decide the branch the call takes
processRead(v, st, u, entity) ==
    LET t == ModelOf(v, entity._entityType)
        id == entity._id
    IN  IF t = "" THEN "unknown-type"
        ELSE IF Found(st, t, id, u) /\ hasConflict(st[<<t, id>>], entity) THEN "conflict"
        ELSE IF Truthy(entity, "_isDeleted") THEN "delete"
        ELSE IF Found(st, t, id, u) THEN "update"
        ELSE "create"

\* the write of processEntity, on the store as it is when the write arrives:
\* [store, threw, overflow]
processWrite(v, st, u, entity, branch, time) ==
    LET t == ModelOf(v, entity._entityType)
        id == entity._id
        data == EntityData(v, entity)
    IN  CASE branch = "delete" ->
                [store |-> handleDelete(st, t, id, u, time), threw |-> FALSE, overflow |-> FALSE]
          [] branch = "update" ->
                [store |-> handleUpdate(v, st, t, id, u, data, UpdateVersionArg(v, entity), time),
                 threw |-> FALSE, overflow |-> FALSE]
          [] branch = "create" -> handleCreate(v, st, t, data, u, entity, time)
          [] OTHER -> [store |-> st, threw |-> FALSE, overflow |-> FALSE]

(****************************** push, bulk *********************************)
\* the loop of pushData from entity k on: "ts" rethrows the first error,
\* "rev" logs it and goes on, counting the entities that were not conflicts
RECURSIVE pushLoop(_, _, _, _, _, _, _, _, _)
pushLoop(v, st, u, entities, k, conflicts, processed, did, time) ==
    IF k > Len(entities)
    THEN [store |-> st, threw |-> FALSE, overflow |-> FALSE,
          conflicts |-> conflicts, processed |-> processed, did |-> did]
    ELSE LET r == processEntity(v, st, u, entities[k], time)
         IN  IF r.overflow
             THEN [store |-> st, threw |-> FALSE, overflow |-> TRUE,
                   conflicts |-> conflicts, processed |-> processed, did |-> did]
             ELSE IF r.threw
             THEN IF v = "ts"
                  THEN [store |-> r.store, threw |-> TRUE, overflow |-> FALSE,
                        conflicts |-> conflicts, processed |-> processed,
                        did |-> Append(did, r.did)]
                  ELSE pushLoop(v, r.store, u, entities, k + 1, conflicts, processed,
                                Append(did, r.did), time)
             ELSE IF r.conflict
             THEN pushLoop(v, r.store, u, entities, k + 1, Append(conflicts, r.entity),
                           processed, Append(did, r.did), time)
             ELSE pushLoop(v, r.store, u, entities, k + 1, conflicts, processed + 1,
                           Append(did, r.did), time)

pushData(v, st, u, entities, time) == pushLoop(v, st, u, entities, 1, <<>>, 0, <<>>, time)

\* what pushData resolves with
pushDataResult(v, r) ==
    IF v = "ts"
    THEN [success |-> TRUE, conflicts |-> r.conflicts]
    ELSE [success |-> TRUE, conflicts |-> r.conflicts, processed |-> r.processed]

RECURSIVE bulkLoopMutAbort(_, _, _, _, _, _, _, _)
bulkLoopMutAbort(v, st, u, entities, k, results, did, time) ==
    IF k > Len(entities)
    THEN [store |-> st, overflow |-> FALSE, results |-> results, did |-> did]
    ELSE LET r == processEntity(v, st, u, entities[k], time)
         IN  IF r.overflow
             THEN [store |-> st, overflow |-> TRUE, results |-> results, did |-> did]
             ELSE IF r.threw
             THEN [store |-> r.store, overflow |-> FALSE,
                   results |-> Append(results, [success |-> FALSE, entity |-> entities[k]]),
                   did |-> Append(did, r.did)]
             ELSE bulkLoopMutAbort(v, r.store, u, entities, k + 1,
                                   Append(results, [success |-> TRUE, entity |-> r.entity,
                                                    conflict |-> r.conflict]),
                                   Append(did, r.did), time)

\* the loop of bulkSync: one result per entity, errors captured per item
RECURSIVE bulkLoop(_, _, _, _, _, _, _, _)
bulkLoop(v, st, u, entities, k, results, did, time) ==
    IF k > Len(entities)
    THEN [store |-> st, overflow |-> FALSE, results |-> results, did |-> did]
    ELSE LET r == processEntity(v, st, u, entities[k], time)
         IN  IF r.overflow
             THEN [store |-> st, overflow |-> TRUE, results |-> results, did |-> did]
             ELSE IF r.threw
             THEN bulkLoop(v, r.store, u, entities, k + 1,
                           Append(results, [success |-> FALSE, entity |-> entities[k]]),
                           Append(did, r.did), time)
             ELSE bulkLoop(v, r.store, u, entities, k + 1,
                           Append(results, [success |-> TRUE, entity |-> r.entity,
                                            conflict |-> r.conflict]),
                           Append(did, r.did), time)

bulkSync(v, st, u, entities, time) == bulkLoop(v, st, u, entities, 1, <<>>, <<>>, time)

(*************************** conflict resolution ***************************)
\* ConflictResolution.find({ user }).sort({ timestamp: -1 }), newest first;
\* "rev" adds .limit(50)
GetConflictsLimit == 50

RECURSIVE Reverse(_)
Reverse(s) == IF s = <<>> THEN <<>> ELSE Append(Reverse(Tail(s)), Head(s))

getConflicts(v, lg, u) ==
    LET mine == Reverse(SelectSeq(lg, LAMBDA c : c.user = u))
    IN  IF v = "rev" /\ Len(mine) > GetConflictsLimit
        THEN SubSeq(mine, 1, GetConflictsLimit)
        ELSE mine

\* entity.toObject(): the stored document with its _id
ToObject(st, t, id) == Spread(st[<<t, id>>], [_id |-> id])

\* the data resolveConflict writes back for a resolution
resolvedData(st, t, id, request) ==
    LET entity == ToObject(st, t, id)
    IN  CASE request.resolution = "local" -> entity
          [] request.resolution = "server" ->
                IF Has(entity, "_conflictData") THEN entity._conflictData ELSE entity
          [] request.resolution = "merge" ->
                IF Has(request, "mergedData") THEN request.mergedData ELSE entity
          [] OTHER -> Empty

\* the _version resolveConflict writes
resolveVersion(entity) == NumOr(entity, "_version", 0) + 1

\* Model.updateOne of resolveConflict: [doc, threw].  "ts" passes
\* _conflictData: undefined, a key mongoose strips from the update; "rev"
\* passes $unset, which the server rejects when $set names the same path
resolveUpdate(v, doc, data, time) ==
    LET set == Spread(Rest(data, {"_id"}),
                      [_syncStatus |-> "synced", _lastModified |-> time,
                       _version |-> resolveVersion(doc)])
    IN  IF v = "ts"
        THEN [doc |-> ApplySet(doc, Rest(set, {"_conflictData"}), time), threw |-> FALSE]
        ELSE IF Has(set, "_conflictData")
        THEN [doc |-> doc, threw |-> TRUE]
        ELSE [doc |-> Rest(ApplySet(doc, set, time), {"_conflictData"}), threw |-> FALSE]

\* the audit document ConflictResolution.create is given
auditEntry(st, t, id, u, request, time) ==
    LET entity == ToObject(st, t, id)
        base == [entityId |-> request.entityId, entityType |-> request.entityType,
                 localData |-> entity, resolution |-> request.resolution,
                 timestamp |-> time, user |-> u]
        withServer == IF Has(entity, "_conflictData")
                      THEN Spread(base, [serverData |-> entity._conflictData]) ELSE base
    IN  IF Has(request, "mergedData")
        THEN Spread(withServer, [mergedData |-> request.mergedData]) ELSE withServer

\* resolveConflict: [store, log, threw, notFound].  serverData is a required
\* path of the audit schema: create() rejects an entry without it, after
\* the entity has been updated
resolveConflict(v, st, lg, u, request, time) ==
    LET t == ModelOf(v, request.entityType)
        id == request.entityId
    IN  IF t = "" \/ ~Found(st, t, id, u)
        THEN [store |-> st, log |-> lg, threw |-> TRUE, notFound |-> (t # "")]
        ELSE LET up == resolveUpdate(v, st[<<t, id>>], resolvedData(st, t, id, request), time)
                 entry == auditEntry(st, t, id, u, request, time)
             IN  IF up.threw
                 THEN [store |-> st, log |-> lg, threw |-> TRUE, notFound |-> FALSE]
                 ELSE IF ~Has(entry, "serverData")
                 THEN [store |-> [st EXCEPT ![<<t, id>>] = up.doc], log |-> lg,
                       threw |-> TRUE, notFound |-> FALSE]
                 ELSE [store |-> [st EXCEPT ![<<t, id>>] = up.doc], log |-> Append(lg, entry),
                       threw |-> FALSE, notFound |-> FALSE]

\* what the client of POST /sync/conflicts/resolve gets: the service wraps
\* every error in a plain Error ("rev" keeps the message of the cause), the
\* controller passes it on and the error middleware answers 500
resolveConflictResponse(v, r) ==
    IF ~r.threw THEN [status |-> 200, message |-> "Conflict resolved successfully"]
    ELSE [status |-> 500,
          message |-> IF v = "rev" /\ r.notFound
                      THEN "Failed to resolve conflict: Entity not found"
                      ELSE "Failed to resolve conflict"]

(********************************* pull ************************************)
DefaultLimit == 50

\* SyncMetadata.updateOne({ user }, { $set: updates }, { upsert: true })
MetaDefaults == [totalEntities |-> 0, pendingCount |-> 0, conflictCount |-> 0,
                 errorCount |-> 0, isOnline |-> TRUE, isSyncing |-> FALSE]

updateSyncMetadata(mt, u, updates, time) ==
    LET old == IF u \in DOMAIN mt THEN mt[u] ELSE Spread(MetaDefaults, [lastSyncTime |-> time])
    IN  [w \in DOMAIN mt \cup {u} |->
            IF w = u THEN Spread(old, Spread(updates, [updatedAt |-> time])) ELSE mt[w]]

\* the documents of collection t the query of pullData selects: the owner's,
\* and with a cursor those modified after it ("rev": or updated or created)
pullQueryMutLive(v, st, u, t, request) ==
    {k \in DOMAIN st :
        /\ k[1] = t
        /\ st[k].user = u
        /\ ~st[k]._isDeleted
        /\ \/ ~Has(request, "lastSyncTime")
           \/ st[k]._lastModified > request.lastSyncTime
           \/ v = "rev" /\ st[k].updatedAt > request.lastSyncTime
           \/ v = "rev" /\ st[k].createdAt > request.lastSyncTime}

pullQueryMutCreated(v, st, u, t, request) ==
    {k \in DOMAIN st :
        /\ k[1] = t
        /\ st[k].user = u
        /\ \/ ~Has(request, "lastSyncTime")
           \/ st[k].createdAt > request.lastSyncTime}

pullQuery(v, st, u, t, request) ==
    {k \in DOMAIN st :
        /\ k[1] = t
        /\ st[k].user = u
        /\ \/ ~Has(request, "lastSyncTime")
           \/ st[k]._lastModified > request.lastSyncTime
           \/ v = "rev" /\ st[k].updatedAt > request.lastSyncTime
           \/ v = "rev" /\ st[k].createdAt > request.lastSyncTime}

\* .sort({ _lastModified: -1 }) ("rev": then updatedAt: -1); documents the
\* sort keys do not separate come in any order
sortedBy(v, st, K) ==
    {s \in [1..Cardinality(K) -> K] :
        /\ \A i, j \in DOMAIN s : i # j => s[i] # s[j]
        /\ \A i, j \in DOMAIN s : i < j =>
              \/ st[s[i]]._lastModified > st[s[j]]._lastModified
              \/ /\ st[s[i]]._lastModified = st[s[j]]._lastModified
                 /\ (v = "rev" => st[s[i]].updatedAt >= st[s[j]].updatedAt)}

\* .limit(limit).skip(offset)
page(s, limit, offset) ==
    IF offset >= Len(s) THEN <<>>
    ELSE SubSeq(s, offset + 1, IF offset + limit < Len(s) THEN offset + limit ELSE Len(s))

\* the documents as pullData returns them, tagged with their type
tagged(st, ks) ==
    [n \in DOMAIN ks |-> Spread(st[ks[n]], [_id |-> ks[n][2], _entityType |-> ks[n][1]])]

\* entities.sort((a, b) => b._lastModified - a._lastModified): a stable sort
RECURSIVE insertDesc(_, _)
insertDesc(s, e) ==
    IF s = <<>> THEN <<e>>
    ELSE IF Head(s)._lastModified >= e._lastModified
         THEN <<Head(s)>> \o insertDesc(Tail(s), e)
         ELSE <<e>> \o s

sortDescMutConcat(s) == s

RECURSIVE sortDesc(_)
sortDesc(s) == IF s = <<>> THEN <<>> ELSE insertDesc(sortDesc(SubSeq(s, 1, Len(s) - 1)), s[Len(s)])

\* the types a pull request covers
pullTypes(v, request) ==
    {t \in StoreTypes :
        \/ ~Has(request, "entityType")
        \/ request.entityType = t
        \/ v = "rev" /\ t = "expense" /\ request.entityType = "outcome"}

pullLimit(request) == IF Has(request, "limit") THEN request.limit ELSE DefaultLimit
pullOffset(request) == IF Has(request, "offset") THEN request.offset ELSE 0

\* the responses pullData may give: one per order the store may return
pullData(v, st, lg, u, request, time) ==
    LET types == pullTypes(v, request)
        eq == IF "expense" \in types THEN pullQuery(v, st, u, "expense", request) ELSE {}
        cq == IF "category" \in types THEN pullQuery(v, st, u, "category", request) ELSE {}
        conflicts == getConflicts(v, lg, u)
    IN  {[entities |-> sortDesc(tagged(st, page(es, pullLimit(request), pullOffset(request))
                                    \o page(cs, pullLimit(request), pullOffset(request)))),
          conflicts |-> conflicts,
          lastSyncTime |-> time,
          hasMore |-> (Len(page(es, pullLimit(request), pullOffset(request)))
                       + Len(page(cs, pullLimit(request), pullOffset(request)))
                       = pullLimit(request)),
          totalCount |-> Cardinality(eq) + Cardinality(cq)] :
            es \in sortedBy(v, st, eq), cs \in sortedBy(v, st, cq)}

pullMetadataMutPage(r, time) ==
    [lastSyncTime |-> time, totalEntities |-> Len(r.entities), pendingCount |-> 0,
     conflictCount |-> Len(r.conflicts)]

\* the metadata pullData writes
pullMetadata(r, time) ==
    [lastSyncTime |-> time, totalEntities |-> r.totalCount, pendingCount |-> 0,
     conflictCount |-> Len(r.conflicts)]

(********************** the SyncMetadata collection ************************)
uniqueUserMutNone(ms, n, user) == TRUE

\* the unique index on user: no document but the n-th has this user
uniqueUser(ms, n, user) == \A m \in DOMAIN ms \ {n} : ms[m].user # user

\* SyncMetadata.findOne({ user }): the places of the matching documents
metaFind(ms, u) == {n \in DOMAIN ms : ms[n].user = u}

\* SyncMetadata.create(doc): [docs, threw], a duplicate key being an error
metaCreate(ms, doc) ==
    IF uniqueUser(ms, 0, doc.user)
    THEN [docs |-> Append(ms, doc), threw |-> FALSE]
    ELSE [docs |-> ms, threw |-> TRUE]

\* the document getSyncMetadata creates
metaFirst(u, time) ==
    Spread(MetaDefaults, [user |-> u, lastSyncTime |-> time, createdAt |-> time, updatedAt |-> time])

\* updateOne on the matched document n: [docs, threw]
metaUpdate(ms, n, updates, time) ==
    LET doc == Spread(ms[n], Spread(updates, [updatedAt |-> time]))
    IN  IF uniqueUser(ms, n, doc.user)
        THEN [docs |-> [ms EXCEPT ![n] = doc], threw |-> FALSE]
        ELSE [docs |-> ms, threw |-> TRUE]

\* the insert of an upsert that matched nothing: the query's user, the schema
\* defaults and the update
metaUpsertInsert(ms, u, updates, time) ==
    metaCreate(ms, Spread(Spread(Spread(MetaDefaults, [lastSyncTime |-> time, createdAt |-> time]),
                                 [user |-> u]),
                          Spread(updates, [updatedAt |-> time])))

(**************************** forced sync **********************************)
forceSyncCatchMutSkip(mt, u, faults, time) ==
    [meta |-> mt, outcome |-> IF faults.recover THEN "rejected" ELSE "error"]

\* the catch block of forceSync: one more metadata write, not guarded; when
\* it rejects too, the handler's promise rejects and next is never called
forceSyncCatch(mt, u, faults, time) ==
    IF faults.recover
    THEN [meta |-> mt, outcome |-> "rejected"]
    ELSE [meta |-> updateSyncMetadata(mt, u, [isSyncing |-> FALSE], time), outcome |-> "error"]

\* SyncController.forceSync, r the response of the pull; faults names the
\* calls that reject: the metadata write at the start, the pull, the
\* metadata write inside the pull (caught there), the one at the end and the
\* one of the catch block
forceSync(mt, u, r, faults, time) ==
    IF faults.begin THEN forceSyncCatch(mt, u, faults, time)
    ELSE LET syncing == updateSyncMetadata(mt, u, [isSyncing |-> TRUE], time)
             pulled == IF faults.inner THEN syncing
                       ELSE updateSyncMetadata(syncing, u, pullMetadata(r, time), time)
         IN  IF faults.pull THEN forceSyncCatch(syncing, u, faults, time)
             ELSE IF faults.end THEN forceSyncCatch(pulled, u, faults, time)
             ELSE [meta |-> updateSyncMetadata(pulled, u,
                                [isSyncing |-> FALSE, lastSyncTime |-> time,
                                 totalEntities |-> r.totalCount], time),
                   outcome |-> "done"]

(******************************* cleanup ***********************************)
cleanupOldSyncDataMutAnyUser(lg, u, olderThanDays, time) ==
    SelectSeq(lg, LAMBDA c : ~(c.timestamp < time - olderThanDays))

\* cutoffDate.setDate(cutoffDate.getDate() - olderThanDays), a day to a tick
cutoffDate(time, olderThanDays) == time - olderThanDays

\* ConflictResolution.deleteMany({ user, timestamp: { $lt: cutoffDate } });
\* the SyncOperation rows it also deletes are written by no code
cleanupOldSyncData(lg, u, olderThanDays, time) ==
    SelectSeq(lg, LAMBDA c : ~(c.user = u /\ c.timestamp < cutoffDate(time, olderThanDays)))

(***************************** rate limiter ********************************)
\* the two revisions of the middleware: "ts" is
\* src/src/app/middleware/sync.middleware.ts, "rev" is src/unnamed/part_016
LimiterRevisions == {"ts", "rev"}

\* rateLimitSync(100, 15 * 60 * 1000) as app.ts installs it, with the
\* numbers of the model: two requests in a window of two ticks
maxRequests == 2
windowMs == 2

\* a path as its segments, /v1/sync/pull being <<"v1", "sync", "pull">>:
\* req.path.includes('/sync/') || req.originalUrl?.includes('/sync/') in
\* "ts", req.path.startsWith('/sync/') in "rev"
isSyncPath(revision, path) ==
    IF revision = "rev"
    THEN Len(path) > 1 /\ path[1] = "sync"
    ELSE \E n \in 1..(Len(path) - 1) : path[n] = "sync"

\* the key of the Map, `sync_${req.user?._id}`: req.user is what
\* passport.session() restored from the session cookie, the JWT being
\* verified later, in the router
rateLimitKey(request) == IF Has(request, "session") THEN request.session ELSE "undefined"

\* the middleware rateLimitSync returns: [requests, rejected]
rateLimitSync(revision, requests, request, time) ==
    LET key == rateLimitKey(request)
    IN  IF ~isSyncPath(revision, request.path)
        THEN [requests |-> requests, rejected |-> FALSE]
        ELSE IF key \notin DOMAIN requests \/ time > requests[key].resetTime
        THEN [requests |-> Spread(requests, [k \in {key} |->
                                [count |-> 1, resetTime |-> time + windowMs]]),
              rejected |-> FALSE]
        ELSE IF requests[key].count >= maxRequests
        THEN [requests |-> requests, rejected |-> TRUE]
        ELSE [requests |-> [requests EXCEPT ![key].count = @ + 1], rejected |-> FALSE]

(***************************** request inputs ******************************)
\* the envelope fields a client may send or leave out
VersionFields == {Empty} \cup {[_version |-> n] : n \in 1..MaxInVersion}
TimeFields == {[_lastModified |-> t] : t \in {0, MaxTime}}
DeletedFields == {[_isDeleted |-> FALSE], [_isDeleted |-> TRUE]}

\* payloads: a plain one, and one that also carries server-owned fields
Payloads == {[body |-> "a"],
             [body |-> "b", user |-> "u2", _syncStatus |-> "pending"],
             [body |-> "a", _conflictData |-> [body |-> "s"]]}

\* the entity types the validators of /push and /conflicts/resolve accept
ValidEntityTypes == {"expense", "category", "user"}

\* the entities of a push; the validator of /push lets the type "user"
\* through, which no revision of processEntity handles
PushEntities ==
    {Spread(Spread(Spread(Spread([_entityType |-> "expense", _id |-> id], vf), tf), df), p) :
        id \in ClientIds, vf \in VersionFields, tf \in TimeFields, df \in DeletedFields, p \in Payloads}
    \cup {[_entityType |-> "user", _id |-> "i1", _lastModified |-> 0, body |-> "a"],
          [_entityType |-> "expense", _id |-> "i1", body |-> "a"]}

\* the bodies of POST /sync/conflicts/resolve
MergedFields == {Empty, [mergedData |-> [body |-> "m"]]}

ResolveRequests ==
    {Spread([entityId |-> id, entityType |-> "expense", resolution |-> res], mf) :
        id \in Ids, res \in {"local", "server", "merge"}, mf \in MergedFields}
    \cup {[entityId |-> "i1", entityType |-> "user", resolution |-> "local"]}

\* the queries of GET /sync/pull
CursorFields == {Empty} \cup {[lastSyncTime |-> t] : t \in 0..MaxTime}
TypeFields == {Empty, [entityType |-> "expense"], [entityType |-> "category"]}
LimitFields == {Empty, [limit |-> 1, offset |-> 0], [limit |-> 1, offset |-> 1]}

PullRequests ==
    {Spread(Spread(cf, tf), lf) : cf \in CursorFields, tf \in TypeFields, lf \in LimitFields}

\* the entities that fill the store for the pulls: creations and deletions in
\* both collections, some carrying a createdAt of their own
SeedPayloads == {[body |-> "a"], [body |-> "a", createdAt |-> MaxTime]}

SeedEntities ==
    {Spread(Spread([_entityType |-> t, _id |-> id, _lastModified |-> MaxTime], df), p) :
        t \in StoreTypes, id \in ClientIds, df \in DeletedFields, p \in SeedPayloads}

\* bulk pushes run the same per-entity code: they are driven with the plain
\* payload only
BulkEntities == {e \in PushEntities : DOMAIN e \cap {"user", "_conflictData"} = {}}

Batches(E) == UNION {[1..n -> E] : n \in 1..MaxBatch}

\* the entities of the longer batches: one of a type processEntity rejects,
\* two creations, a stale update and a deletion
MixedEntities ==
    {[_entityType |-> "user", _id |-> "i1", _lastModified |-> 0, body |-> "a"],
     [_entityType |-> "expense", _id |-> "i1", body |-> "a"],
     [_entityType |-> "expense", _id |-> "i2", _lastModified |-> MaxTime, _isDeleted |-> FALSE,
      body |-> "a"],
     [_entityType |-> "expense", _id |-> "i1", _lastModified |-> 0, _isDeleted |-> FALSE,
      body |-> "a"],
     [_entityType |-> "expense", _id |-> "i1", _lastModified |-> MaxTime, _isDeleted |-> TRUE,
      body |-> "a"]}

\* the calls of a forced sync that may reject
Faults == [begin : BOOLEAN, pull : BOOLEAN, inner : BOOLEAN, end : BOOLEAN, recover : BOOLEAN]

\* olderThanDays as the route admits it: an integer from 1 up
Days == 1..MaxDays

\* the pushes that fill the store before conflicts are resolved
SnapshotEntities ==
    {[_entityType |-> "expense", _id |-> "i1", body |-> "a", _conflictData |-> [body |-> "s"]]}

MixedBatches == UNION {[1..n -> MixedEntities] : n \in 1..MaxMixedBatch}

(******************************* the state *********************************)
\* what the last completed call was and how it ended
NoCall == [op |-> "none", user |-> "", threw |-> FALSE, conflicts |-> 0, accepted |-> 0,
           did |-> <<>>, exact |-> FALSE, key |-> <<"", "">>]

\* the collection and _id the first entity of a batch names
FirstKey(v, entities) == <<ModelOf(v, entities[1]._entityType), entities[1]._id>>

\* a push resubmits a stored document: same _version, same _lastModified
Resubmits(v, st, u, entities) ==
    \E k \in DOMAIN entities :
        LET e == entities[k]
            t == ModelOf(v, e._entityType)
        IN  /\ t # ""
            /\ Found(st, t, e._id, u)
            /\ Has(e, "_version") /\ e._version = st[<<t, e._id>>]._version
            /\ Has(e, "_lastModified") /\ e._lastModified = st[<<t, e._id>>]._lastModified

\* the devices whose requests may be in flight at once
Devices == {"d1", "d2"}

\* a device's request: where it stands, the branch its read chose, the
\* metadata writes it still has to make
Idle == [pc |-> "idle", op |-> "", user |-> "", branch |-> "", entity |-> Empty, todo |-> <<>>]

\* the limiter before the application is configured: no revision of the
\* middleware installed, an empty Map, no request seen
NoLimiter == [revision |-> "", requests |-> Empty, seen |-> <<>>]

\* no request in flight, no step taken
NoCalls == [of |-> [d \in Devices |-> Idle], events |-> <<>>]

Init ==
    /\ variant \in Variants
    /\ store = Empty
    /\ log = <<>>
    /\ meta = Empty
    /\ now = 1
    /\ ops = 0
    /\ last = NoCall
    /\ calls = NoCalls
    /\ metadatas = <<>>
    /\ limiter = NoLimiter

\* the wall clock advances between requests
Tick ==
    /\ now < MaxTime
    /\ now' = now + 1
    /\ UNCHANGED <<variant, store, log, meta, ops, last, concurrent>>

\* POST /sync/push
PushData(u, entities) ==
    LET r == pushData(variant, store, u, entities, now)
    IN  /\ ops < MaxOps
        /\ ~r.overflow
        /\ store' = r.store
        /\ ops' = ops + 1
        /\ last' = [op |-> "push", user |-> u, threw |-> r.threw,
                    conflicts |-> Len(r.conflicts), accepted |-> r.processed,
                    did |-> r.did, exact |-> Resubmits(variant, store, u, entities),
                    key |-> FirstKey(variant, entities)]
        /\ UNCHANGED <<variant, log, meta, now, concurrent>>

\* POST /sync/bulk
BulkSync(u, entities) ==
    LET r == bulkSync(variant, store, u, entities, now)
    IN  /\ ops < MaxOps
        /\ ~r.overflow
        /\ store' = r.store
        /\ ops' = ops + 1
        /\ last' = [op |-> "bulk", user |-> u, threw |-> FALSE,
                    conflicts |-> Cardinality({k \in DOMAIN r.results :
                                       r.results[k].success /\ r.results[k].conflict}),
                    accepted |-> Cardinality({k \in DOMAIN r.results :
                                       r.results[k].success /\ ~r.results[k].conflict}),
                    did |-> r.did, exact |-> Resubmits(variant, store, u, entities),
                    key |-> FirstKey(variant, entities)]
        /\ UNCHANGED <<variant, log, meta, now, concurrent>>

\* POST /sync/conflicts/resolve
ResolveConflict(u, request) ==
    LET r == resolveConflict(variant, store, log, u, request, now)
    IN  /\ ops < MaxOps
        /\ store' = r.store
        /\ log' = r.log
        /\ ops' = ops + 1
        /\ last' = [op |-> "resolve", user |-> u, threw |-> r.threw,
                    conflicts |-> 0, accepted |-> IF r.threw THEN 0 ELSE 1,
                    did |-> <<request.resolution>>, exact |-> FALSE,
                    key |-> <<ModelOf(variant, request.entityType), request.entityId>>]
        /\ UNCHANGED <<variant, meta, now, concurrent>>

\* GET /sync/pull; unrecorded: the metadata write rejects, which pullData
\* logs before it answers as it would have
PullData(u, request, unrecorded) ==
    \E r \in pullData(variant, store, log, u, request, now) :
        /\ ops < MaxOps
        /\ meta' = IF unrecorded THEN meta
                   ELSE updateSyncMetadata(meta, u, pullMetadata(r, now), now)
        /\ ops' = ops + 1
        /\ last' = [op |-> "pull", user |-> u, threw |-> FALSE,
                    conflicts |-> Len(r.conflicts), accepted |-> Len(r.entities),
                    did |-> <<IF Has(request, "lastSyncTime") THEN "cursor" ELSE "all">>
                            \o (IF unrecorded THEN <<"unrecorded">> ELSE <<>>),
                    exact |-> FALSE, key |-> <<"", "">>]
        /\ UNCHANGED <<variant, store, log, now, concurrent>>

Next ==
    \/ Tick
    \/ \E u \in Users, b \in Batches(PushEntities) : PushData(u, b)
    \/ \E u \in Users, b \in Batches(BulkEntities) : BulkSync(u, b)
    \/ \E u \in Users, q \in ResolveRequests : ResolveConflict(u, q)

Spec == Init /\ [][Next]_vars

\* pulls over stores that pushes of both collections have filled
NextPull ==
    \/ Tick
    \/ \E u \in Users, b \in Batches(SeedEntities) : PushData(u, b)
    \/ \E u \in Users, q \in PullRequests, unrecorded \in BOOLEAN : PullData(u, q, unrecorded)

SpecPull == Init /\ [][NextPull]_vars

\* POST /sync/force-sync
ForceSync(u, faults) ==
    \E r \in pullData(variant, store, log, u, Empty, now) :
        LET f == forceSync(meta, u, r, faults, now)
        IN  /\ ops < MaxOps
            /\ meta' = f.meta
            /\ ops' = ops + 1
            /\ last' = [op |-> "force", user |-> u, threw |-> (f.outcome # "done"),
                        conflicts |-> Len(r.conflicts), accepted |-> Len(r.entities),
                        did |-> <<f.outcome, IF faults.begin THEN "unset" ELSE "set">>,
                        exact |-> FALSE, key |-> <<"", "">>]
            /\ UNCHANGED <<variant, store, log, now, concurrent>>

\* forced syncs over stores that pushes have filled
NextForce ==
    \/ Tick
    \/ \E u \in Users, b \in Batches(SnapshotEntities) : PushData(u, b)
    \/ \E u \in Users, f \in Faults : ForceSync(u, f)

SpecForce == Init /\ [][NextForce]_vars

\* a day passes
DayPasses ==
    /\ now < MaxDay
    /\ now' = now + 1
    /\ UNCHANGED <<variant, store, log, meta, ops, last, concurrent>>

\* DELETE /sync/cleanup
Cleanup(u, olderThanDays) ==
    LET kept == cleanupOldSyncData(log, u, olderThanDays, now)
    IN  /\ log' = kept
        /\ last' = [op |-> "cleanup", user |-> u, threw |-> FALSE, conflicts |-> 0,
                    accepted |-> Len(log) - Len(kept), did |-> <<>>, exact |-> FALSE,
                    key |-> <<"", "">>]
        /\ UNCHANGED <<variant, store, meta, now, ops, concurrent>>

\* cleanups of the audit log that resolved conflicts have written
NextCleanup ==
    \/ DayPasses
    \/ \E u \in Users, b \in Batches(SnapshotEntities) : PushData(u, b)
    \/ \E u \in Users, q \in ResolveRequests : ResolveConflict(u, q)
    \/ \E u \in Users, d \in Days : Cleanup(u, d)

SpecCleanup == Init /\ [][NextCleanup]_vars

\* pushes and bulk pushes of batches that mix good and bad entities
NextBatch ==
    \/ Tick
    \/ \E u \in Users, b \in MixedBatches : PushData(u, b)
    \/ \E u \in Users, b \in MixedBatches : BulkSync(u, b)

SpecBatch == Init /\ [][NextBatch]_vars

\* the entities two devices push at once: updates of one expense
RaceEntities ==
    {Spread(Spread([_entityType |-> "expense", _id |-> id, _isDeleted |-> FALSE, body |-> b], vf), tf) :
        id \in ClientIds, b \in Bodies, vf \in VersionFields, tf \in TimeFields}

\* the push that stores the expense before the devices race
RaceSeeds == {[_entityType |-> "expense", _id |-> "i1", body |-> "a"]}

\* POST /sync/push of one entity arrives from device d
PushBegin(d, u, e) ==
    /\ ops < MaxOps
    /\ calls.of[d].pc = "idle"
    /\ calls' = [calls EXCEPT !.of[d] = [pc |-> "read", op |-> "push", user |-> u,
                                         branch |-> "", entity |-> e, todo |-> <<>>]]
    /\ ops' = ops + 1
    /\ UNCHANGED <<variant, store, log, meta, now, last, metadatas, limiter>>

\* the findOne of processEntity resolves and the conflict check runs
PushRead(d) ==
    LET c == calls.of[d]
        branch == processRead(variant, store, c.user, c.entity)
    IN  /\ c.pc = "read"
        /\ calls' = [calls EXCEPT
                        !.of[d] = [c EXCEPT !.branch = branch,
                                            !.pc = IF branch \in {"conflict", "unknown-type"}
                                                   THEN "done" ELSE "write"],
                        !.events = Append(@, <<d, "read">>)]
        /\ UNCHANGED <<variant, store, log, meta, now, ops, last, metadatas, limiter>>

\* the updateOne or save of the branch resolves
PushWrite(d) ==
    LET c == calls.of[d]
        w == processWrite(variant, store, c.user, c.entity, c.branch, now)
    IN  /\ c.pc = "write"
        /\ ~w.overflow
        /\ store' = w.store
        /\ calls' = [calls EXCEPT
                        !.of[d] = [c EXCEPT !.pc = "done",
                                            !.branch = IF w.threw THEN "create-failed" ELSE @],
                        !.events = Append(@, <<d, "write">>)]
        /\ UNCHANGED <<variant, log, meta, now, ops, last, metadatas, limiter>>

\* a push that completes before any device starts
SeedPush(u, b) ==
    /\ calls = NoCalls
    /\ PushData(u, b)

\* two devices pushing at once, their reads and writes in any order
NextRace ==
    \/ Tick
    \/ \E u \in Users, b \in Batches(RaceSeeds) : SeedPush(u, b)
    \/ \E d \in Devices, u \in Users, e \in RaceEntities : PushBegin(d, u, e)
    \/ \E d \in Devices : PushRead(d)
    \/ \E d \in Devices : PushWrite(d)

SpecRace == Init /\ [][NextRace]_vars

\* the bodies of PUT /sync/metadata: the validator checks the fields it
\* names and lets every other field through
MetaUpdates == {[isOnline |-> FALSE], [pendingCount |-> 1, user |-> "u2"]}

\* the metadata writes a request makes, in order; r the response of its pull
metaWrites(op, updates, r, time) ==
    CASE op = "update" -> <<updates>>
      [] op = "pull" -> <<pullMetadata(r, time)>>
      [] op = "force" -> <<[isSyncing |-> TRUE], pullMetadata(r, time),
                           [isSyncing |-> FALSE, lastSyncTime |-> time,
                            totalEntities |-> r.totalCount]>>
      [] OTHER -> <<>>

\* GET or PUT /sync/metadata, GET /sync/pull or POST /sync/force-sync arrives
\* from device d
MetaBegin(d, u, op, updates) ==
    \E r \in pullData(variant, store, log, u, Empty, now) :
        /\ ops < MaxOps
        /\ calls.of[d].pc \in {"idle", "done"}
        /\ calls' = [calls EXCEPT !.of[d] =
                        [pc |-> IF op = "get" THEN "find" ELSE "match", op |-> op, user |-> u,
                         branch |-> "", entity |-> Empty,
                         todo |-> metaWrites(op, updates, r, now)]]
        /\ ops' = ops + 1
        /\ UNCHANGED <<variant, store, log, meta, now, last, metadatas, limiter>>

\* the findOne of getSyncMetadata resolves
MetaFind(d) ==
    LET c == calls.of[d]
    IN  /\ c.pc = "find"
        /\ calls' = [calls EXCEPT !.of[d] =
                        IF metaFind(metadatas, c.user) # {}
                        THEN [c EXCEPT !.pc = "done", !.branch = "found"]
                        ELSE [c EXCEPT !.pc = "create"]]
        /\ UNCHANGED <<variant, store, log, meta, now, ops, last, metadatas, limiter>>

\* the create of getSyncMetadata resolves or rejects
MetaCreate(d) ==
    LET c == calls.of[d]
        w == metaCreate(metadatas, metaFirst(c.user, now))
    IN  /\ c.pc = "create"
        /\ metadatas' = w.docs
        /\ calls' = [calls EXCEPT !.of[d] =
                        [c EXCEPT !.pc = "done",
                                  !.branch = IF w.threw THEN "duplicate" ELSE "created"]]
        /\ UNCHANGED <<variant, store, log, meta, now, ops, last, limiter>>

\* what a request does after a metadata write: pullData logs a failure and
\* goes on, forceSync turns to the write of its catch block, a failure of
\* which ends it, and updateSyncMetadata ends
metaAfter(c, threw) ==
    IF ~threw /\ Len(c.todo) > 1
    THEN [c EXCEPT !.pc = "match", !.todo = Tail(@), !.branch = "written"]
    ELSE IF ~threw
    THEN [c EXCEPT !.pc = "done", !.todo = <<>>, !.branch = "written"]
    ELSE IF c.op = "force" /\ c.branch # "catch" /\ Len(c.todo) # 2
    THEN [c EXCEPT !.pc = "match", !.todo = <<[isSyncing |-> FALSE]>>, !.branch = "catch"]
    ELSE IF c.op = "force" /\ c.branch # "catch"
    THEN [c EXCEPT !.pc = "match", !.todo = Tail(@), !.branch = "skipped"]
    ELSE [c EXCEPT !.pc = "done", !.todo = <<>>, !.branch = "error"]

\* the update phase of an upsert: it writes the document it matches, or
\* finds none
UpsertMatch(d) ==
    LET c == calls.of[d]
        found == metaFind(metadatas, c.user)
        n == CHOOSE m \in found : \A k \in found : m <= k
        w == metaUpdate(metadatas, n, Head(c.todo), now)
    IN  /\ c.pc = "match"
        /\ IF found = {}
           THEN /\ calls' = [calls EXCEPT !.of[d] = [c EXCEPT !.pc = "insert"]]
                /\ UNCHANGED metadatas
           ELSE /\ metadatas' = w.docs
                /\ calls' = [calls EXCEPT !.of[d] = metaAfter(c, w.threw)]
        /\ UNCHANGED <<variant, store, log, meta, now, ops, last, limiter>>

\* the insert phase of an upsert; on a duplicate key the server either
\* retries the upsert as an update or reports the error
UpsertInsert(d, retry) ==
    LET c == calls.of[d]
        w == metaUpsertInsert(metadatas, c.user, Head(c.todo), now)
    IN  /\ c.pc = "insert"
        /\ metadatas' = w.docs
        /\ calls' = [calls EXCEPT !.of[d] =
                        IF w.threw /\ retry THEN [c EXCEPT !.pc = "match"]
                        ELSE metaAfter(c, w.threw)]
        /\ UNCHANGED <<variant, store, log, meta, now, ops, last, limiter>>

\* metadata requests of two devices, their database calls in any order
NextMeta ==
    \/ Tick
    \/ \E d \in Devices, u \in Users, op \in {"get", "pull", "force"} :
          MetaBegin(d, u, op, Empty)
    \/ \E d \in Devices, u \in Users, up \in MetaUpdates : MetaBegin(d, u, "update", up)
    \/ \E d \in Devices : MetaFind(d)
    \/ \E d \in Devices : MetaCreate(d)
    \/ \E d \in Devices : UpsertMatch(d)
    \/ \E d \in Devices, retry \in BOOLEAN : UpsertInsert(d, retry)

SpecMeta == Init /\ [][NextMeta]_vars

\* forced syncs of two devices, their metadata writes in any order
NextForceRace ==
    \/ Tick
    \/ \E d \in Devices, u \in Users : MetaBegin(d, u, "force", Empty)
    \/ \E d \in Devices : UpsertMatch(d)
    \/ \E d \in Devices, retry \in BOOLEAN : UpsertInsert(d, retry)

SpecForceRace == Init /\ [][NextForceRace]_vars

\* the first request of a client that pages through a pull: a cursor or
\* none, an entity type or none, a limit, offset 0
PageRequests ==
    {Spread(Spread(cf, tf), [limit |-> l, offset |-> 0]) :
        cf \in CursorFields, tf \in TypeFields, l \in 1..MaxLimit}

\* device d starts to page through GET /sync/pull
PageBegin(d, u, request) ==
    /\ ops < MaxOps
    /\ calls.of[d].pc = "idle"
    /\ calls' = [calls EXCEPT !.of[d] = [pc |-> "page", op |-> "pull", user |-> u,
                                         branch |-> "", entity |-> request, todo |-> <<>>]]
    /\ ops' = ops + 1
    /\ UNCHANGED <<variant, store, log, meta, now, last, metadatas, limiter>>

\* GET /sync/pull with the offset the device has reached: the entities
\* received go to events, an empty page ends the paging, any other moves
\* the offset on by limit
PageNext(d) ==
    LET c == calls.of[d]
    IN  \E r \in pullData(variant, store, log, c.user, c.entity, now) :
            /\ c.pc = "page"
            /\ calls' = [calls EXCEPT
                            !.of[d] = IF r.entities = <<>>
                                      THEN [c EXCEPT !.pc = "done"]
                                      ELSE [c EXCEPT !.entity.offset = @ + pullLimit(c.entity)],
                            !.events = @ \o [n \in DOMAIN r.entities |->
                                                <<d, <<r.entities[n]._entityType,
                                                       r.entities[n]._id>>>>]]
            /\ meta' = updateSyncMetadata(meta, c.user, pullMetadata(r, now), now)
            /\ UNCHANGED <<variant, store, log, now, ops, last, metadatas, limiter>>

\* clients paging through stores that earlier pushes have filled: no write
\* arrives once a client has started
NextPage ==
    \/ Tick
    \/ \E u \in Users, b \in Batches(SeedEntities) : SeedPush(u, b)
    \/ \E d \in Devices, u \in Users, q \in PageRequests : PageBegin(d, u, q)
    \/ \E d \in Devices : PageNext(d)

SpecPage == Init /\ [][NextPage]_vars

\* the payload of an expense with two fields, body for the description
PayloadFields == {"body", "amount"}

\* the pushes that store such an expense, with a snapshot to resolve
PayloadSeeds ==
    {[_entityType |-> "expense", _id |-> "i1", body |-> "a", amount |-> 1,
      _conflictData |-> [body |-> "s", amount |-> 2]]}

\* the bodies of POST /sync/conflicts/resolve that keep or merge: mergedData
\* is any object, with every payload field or with some
PayloadRequests ==
    {Spread([entityId |-> id, entityType |-> "expense", resolution |-> res], mf) :
        id \in ClientIds, res \in {"local", "merge"},
        mf \in {Empty, [mergedData |-> [body |-> "m", amount |-> 3]],
                [mergedData |-> [body |-> "m"]]}}

\* conflicts of two-field expenses resolved as local or merge
NextResolve ==
    \/ Tick
    \/ \E u \in Users, b \in Batches(PayloadSeeds) : PushData(u, b)
    \/ \E u \in Users, q \in PayloadRequests : ResolveConflict(u, q)

SpecResolve == Init /\ [][NextResolve]_vars

\* pulls by users who have resolved conflicts: the audit log is not empty
NextPullMeta ==
    \/ Tick
    \/ \E u \in Users, b \in Batches(SnapshotEntities) : PushData(u, b)
    \/ \E u \in Users, q \in ResolveRequests : ResolveConflict(u, q)
    \/ \E u \in Users, q \in PullRequests, unrecorded \in BOOLEAN : PullData(u, q, unrecorded)

SpecPullMeta == Init /\ [][NextPullMeta]_vars

\* the paths of the requests: a sync route and another one, as mounted
\* under /v1
Paths == {<<"v1", "sync", "pull">>, <<"v1", "expenses">>}

\* the requests that reach the limiter: the user of the bearer token, the
\* path, and for a client that logged in through passport the user of its
\* session
Requests ==
    {Spread([user |-> u, path |-> p], sf) :
        u \in Users, p \in Paths, sf \in {Empty}} \cup
    {[user |-> u, path |-> p, session |-> u] : u \in Users, p \in Paths}

\* configureExpressApp installs a revision of the limiter with an empty Map
ConfigureExpressApp(revision) ==
    /\ limiter.revision = ""
    /\ limiter' = [limiter EXCEPT !.revision = revision]
    /\ UNCHANGED <<variant, store, log, meta, now, ops, last, calls, metadatas>>

\* a request passes through the limiter, which calls next or answers 429;
\* seen keeps what the limiter did with each request
Request(request) ==
    LET r == rateLimitSync(limiter.revision, limiter.requests, request, now)
    IN  /\ limiter.revision # ""
        /\ Len(limiter.seen) < MaxSeen
        /\ limiter' = [limiter EXCEPT
                          !.requests = r.requests,
                          !.seen = Append(@, [user |-> request.user, at |-> now,
                                              sync |-> \E n \in DOMAIN request.path :
                                                          request.path[n] = "sync",
                                              admitted |-> ~r.rejected])]
        /\ last' = [op |-> "request", user |-> request.user, threw |-> r.rejected,
                    conflicts |-> 0, accepted |-> IF r.rejected THEN 0 ELSE 1,
                    did |-> <<IF r.rejected THEN "429" ELSE "next">>, exact |-> FALSE,
                    key |-> <<"", rateLimitKey(request)>>]
        /\ UNCHANGED <<variant, store, log, meta, now, ops, calls, metadatas>>

\* time passes at the limiter
Elapse ==
    /\ now < MaxClock
    /\ now' = now + 1
    /\ UNCHANGED <<variant, store, log, meta, ops, last, concurrent>>

\* requests of two users through the limiter
NextLimit ==
    \/ Elapse
    \/ \E revision \in LimiterRevisions : ConfigureExpressApp(revision)
    \/ \E request \in Requests : Request(request)

SpecLimit == Init /\ [][NextLimit]_vars

\* the pushes around a deletion: an expense created, deleted, and sent
\* again as a live one, with or without a snapshot that is live too
TombstoneEntities ==
    {Spread([_entityType |-> "expense", _id |-> id, _lastModified |-> MaxTime,
             _isDeleted |-> d, body |-> "a"], cf) :
        id \in ClientIds, d \in BOOLEAN,
        cf \in {Empty, [_conflictData |-> [body |-> "s", _isDeleted |-> FALSE]]}}

\* the resolutions of a deleted expense: mergedData is any object, here one
\* of a live expense
TombstoneRequests ==
    {Spread([entityId |-> id, entityType |-> "expense", resolution |-> res], mf) :
        id \in ClientIds, res \in {"local", "server", "merge"},
        mf \in {Empty, [mergedData |-> [body |-> "m", _isDeleted |-> FALSE]]}}

\* pushes, bulk pushes and resolutions that meet deleted expenses
NextTombstone ==
    \/ Tick
    \/ \E u \in Users, b \in Batches(TombstoneEntities) : PushData(u, b)
    \/ \E u \in Users, b \in Batches(TombstoneEntities) : BulkSync(u, b)
    \/ \E u \in Users, q \in TombstoneRequests : ResolveConflict(u, q)

SpecTombstone == Init /\ [][NextTombstone]_vars

(***************************************************************************)
(* The claims.  A claim about what a call does is stated of every call    *)
(* the model's inputs allow, in every reachable state: the call's result  *)
(* and the store it leaves are those the handler computes there.          *)
(***************************************************************************)
\* the incoming version, an absent one counting as 0
InVersion(e) == IF Has(e, "_version") THEN e._version ELSE 0

\* entity e names a stored document of user u
Existing(u, e) ==
    ModelOf(variant, e._entityType) # "" /\ Found(store, ModelOf(variant, e._entityType), e._id, u)

Stored(e) == store[<<ModelOf(variant, e._entityType), e._id>>]

\* stored.lastModified > incoming.lastModified and stored.version > incoming.version
BothNewer(u, e) ==
    /\ Has(e, "_lastModified")
    /\ Stored(e)._lastModified > e._lastModified
    /\ Stored(e)._version > InVersion(e)

PushOne(u, e) == pushData(variant, store, u, <<e>>, now)
BulkOne(u, e) == bulkSync(variant, store, u, <<e>>, now)

\* the call reports its one entity as a conflict
PushConflict(r) == Len(r.conflicts) = 1
BulkConflict(r) == Len(r.results) = 1 /\ r.results[1].success /\ r.results[1].conflict

\* C1: a push (or bulk push) of an entity that names a stored document of the
\* caller reports it as a conflict exactly when the stored document is both
\* later modified and of a higher version than the incoming one.
C1_ConflictIffBothNewer ==
    \A u \in Users, e \in PushEntities :
        Existing(u, e) =>
            LET p == PushOne(u, e)
                b == BulkOne(u, e)
            IN  /\ PushConflict(p) <=> BothNewer(u, e)
                /\ BulkConflict(b) <=> BothNewer(u, e)

\* C1 witness: a push has just reported a conflict
C1_Witness == last.op = "push" /\ last.conflicts = 1 /\ last.did = <<"conflict">>

\* C2: a conflict leaves the store as it was, and the incoming entity comes
\* back paired with the stored document as _conflictData.
C2_ConflictLeavesStore ==
    \A u \in Users, e \in PushEntities :
        LET p == PushOne(u, e)
            b == BulkOne(u, e)
        IN  /\ PushConflict(p) =>
                  /\ p.store = store
                  /\ p.conflicts[1] = Spread(e, [_conflictData |-> Stored(e)])
            /\ BulkConflict(b) =>
                  /\ b.store = store
                  /\ b.results[1].entity = Spread(e, [_conflictData |-> Stored(e)])

\* C2 witness: a bulk push has just reported a conflict
C2_Witness == last.op = "bulk" /\ last.conflicts = 1 /\ last.did = <<"conflict">>

\* the push of e is accepted as an update of a stored document
UpdateCase(u, e) == Existing(u, e) /\ ~BothNewer(u, e) /\ ~Truthy(e, "_isDeleted")

\* C3: an accepted update leaves the stored version one above the version
\* stored before, whatever version the incoming entity carried.
C3_UpdateBumpsStoredVersion ==
    \A u \in Users, e \in PushEntities :
        UpdateCase(u, e) =>
            LET p == PushOne(u, e)
                k == <<ModelOf(variant, e._entityType), e._id>>
            IN  p.store[k]._version = store[k]._version + 1

\* C4: across push, bulk push and resolveConflict the stored version of a
\* document never decreases, and a step that changes it raises it by one.
C4_VersionMonotone ==
    [][\A k \in DOMAIN store :
          /\ k \in DOMAIN store'
          /\ store'[k]._version >= store[k]._version
          /\ store'[k]._version <= store[k]._version + 1]_vars

\* the push of e creates a document
CreateCase(u, e) ==
    /\ ModelOf(variant, e._entityType) # ""
    /\ ~Found(store, ModelOf(variant, e._entityType), e._id, u)
    /\ ~Truthy(e, "_isDeleted")

\* C5: the push of an entity not flagged deleted, whose id names no stored
\* document of the caller, adds one document, with _version 1, the caller as
\* owner, _syncStatus synced and _lastModified the server's time.
C5_CreateSetsServerFields ==
    \A u \in Users, e \in PushEntities :
        LET p == PushOne(u, e)
        IN  (CreateCase(u, e) /\ ~p.overflow) =>
                \E k \in DOMAIN p.store \ DOMAIN store :
                    /\ DOMAIN p.store = DOMAIN store \cup {k}
                    /\ p.store[k]._version = 1
                    /\ p.store[k].user = u
                    /\ p.store[k]._syncStatus = "synced"
                    /\ p.store[k]._lastModified = now

\* C6: a document a push creates is stored under the _id the client sent, for
\* the caller, and a further push of that _id by the caller creates nothing.
C6_CreatedUnderClientId ==
    (last.op \in {"push", "bulk"} /\ last.did = <<"create">>) =>
        /\ last.key \in DOMAIN store
        /\ store[last.key].user = last.user
        /\ \A e \in PushEntities :
              e._id = last.key[2] /\ ModelOf(variant, e._entityType) = last.key[1] =>
                  DOMAIN PushOne(last.user, e).store = DOMAIN store

\* the push of e is accepted as the soft-delete of a stored document
DeleteCase(u, e) == Existing(u, e) /\ ~BothNewer(u, e) /\ Truthy(e, "_isDeleted")

DeleteWrites == {"_isDeleted", "_syncStatus", "_lastModified", "updatedAt"}

\* C7: an accepted soft-delete sets _isDeleted, _syncStatus synced and
\* _lastModified to the server's time, and leaves the version, the payload
\* fields and every other document as they were.
C7_DeleteKeepsVersionAndPayload ==
    \A u \in Users, e \in PushEntities :
        DeleteCase(u, e) =>
            LET p == PushOne(u, e)
                k == <<ModelOf(variant, e._entityType), e._id>>
            IN  /\ DOMAIN p.store = DOMAIN store
                /\ \A j \in DOMAIN store \ {k} : p.store[j] = store[j]
                /\ p.store[k]._isDeleted = TRUE
                /\ p.store[k]._syncStatus = "synced"
                /\ p.store[k]._lastModified = now
                /\ Rest(p.store[k], DeleteWrites) = Rest(store[k], DeleteWrites)
                /\ p.store[k]._version = store[k]._version

\* C7 witness: a push has just soft-deleted a stored document
C7_Witness ==
    /\ last.op = "push" /\ last.did = <<"delete">>
    /\ last.key \in DOMAIN store /\ store[last.key]._isDeleted /\ store[last.key]._version > 1

\* the push of e is a soft-delete of a document the caller does not have
DeleteMissingCase(u, e) ==
    /\ ModelOf(variant, e._entityType) # ""
    /\ ~Found(store, ModelOf(variant, e._entityType), e._id, u)
    /\ Truthy(e, "_isDeleted")

\* C8: the soft-delete of a document the caller does not have writes nothing,
\* raises no error, reports no conflict and is counted as processed.
C8_DeleteOfMissingIsNoOp ==
    \A u \in Users, e \in PushEntities :
        DeleteMissingCase(u, e) =>
            LET p == PushOne(u, e)
                b == BulkOne(u, e)
                res == pushDataResult(variant, p)
            IN  /\ p.store = store /\ ~p.threw
                /\ res.success /\ res.conflicts = <<>>
                /\ Has(res, "processed") => res.processed = 1
                /\ b.store = store
                /\ b.results = <<[success |-> TRUE, entity |-> e, conflict |-> FALSE]>>

\* C8 witness: a push has just soft-deleted an id the caller never had
C8_Witness ==
    /\ last.op = "push" /\ last.did = <<"delete-missing">>
    /\ last.accepted = 1 /\ ~last.threw /\ last.conflicts = 0

\* the push of e resubmits the stored version and time, not flagged deleted
ResubmitCase(u, e) ==
    /\ Existing(u, e)
    /\ ~Truthy(e, "_isDeleted")
    /\ Has(e, "_version") /\ e._version = Stored(e)._version
    /\ Has(e, "_lastModified") /\ e._lastModified = Stored(e)._lastModified

ReturnedKeys(r) == {<<r.entities[n]._entityType, r.entities[n]._id>> : n \in DOMAIN r.entities}

\* the caller's documents of the types the request names modified after the
\* cursor, all of them without one
NewerThanCursor(u, request) ==
    {k \in DOMAIN store :
        /\ store[k].user = u
        /\ Has(request, "entityType") => k[1] = request.entityType
        /\ Has(request, "lastSyncTime") => store[k]._lastModified > request.lastSyncTime}

SelectedByCursor(u, request) ==
    {k \in DOMAIN store :
        /\ store[k].user = u
        /\ Has(request, "entityType") => k[1] = request.entityType
        /\ Has(request, "lastSyncTime") =>
              \/ store[k]._lastModified > request.lastSyncTime
              \/ /\ variant = "rev"
                 /\ \/ store[k].updatedAt > request.lastSyncTime
                    \/ store[k].createdAt > request.lastSyncTime}

\* the page of the request holds every selected document of each type
OnePage(u, request) ==
    /\ Has(request, "offset") => request.offset = 0
    /\ \A t \in StoreTypes :
          Cardinality({k \in SelectedByCursor(u, request) : k[1] = t})
              <= (IF Has(request, "limit") THEN request.limit ELSE DefaultLimit)

OwnedBy(st, b) == {<<k, st[k]>> : k \in {j \in DOMAIN st : st[j].user = b}}

\* the audit entries of user b, in the order they were written
AuditOf(lg, b) == SelectSeq(lg, LAMBDA c : c.user = b)

\* the metadata of user b, Empty when there is none
MetaOf(mt, b) == IF b \in DOMAIN mt THEN mt[b] ELSE Empty

\* C11: a call made by one user returns no document and no audit entry of
\* another user, and creates, changes or removes no document, audit entry
\* or metadata of another user.
C11_OwnerIsolation ==
    [][/\ \A b \in Users \ {last'.user} :
             /\ OwnedBy(store', b) = OwnedBy(store, b)
             /\ AuditOf(log', b) = AuditOf(log, b)
             /\ MetaOf(meta', b) = MetaOf(meta, b)
       /\ \A a \in Users :
             /\ \A n \in DOMAIN getConflicts(variant, log, a) :
                   getConflicts(variant, log, a)[n].user = a
             /\ \A e \in PushEntities :
                   LET p == PushOne(a, e)
                   IN  PushConflict(p) => p.conflicts[1]._conflictData.user = a]_vars

\* the request asks for the type of document k, with a cursor before the
\* time k was last modified or with none
AsksFor(request, k) ==
    /\ Has(request, "entityType") => request.entityType = k[1]
    /\ Has(request, "lastSyncTime") => request.lastSyncTime < store[k]._lastModified

\* the response carries document k flagged deleted
CarriesDeleted(r, k) ==
    \E n \in DOMAIN r.entities :
        /\ r.entities[n]._entityType = k[1] /\ r.entities[n]._id = k[2]
        /\ r.entities[n]._isDeleted = TRUE

\* C12 as stated: every pull of the owner with a cursor before the time of
\* an accepted soft-delete, or with none, returns the deleted document.
C12_DeletionPulled ==
    \A k \in DOMAIN store :
        store[k]._isDeleted =>
            \A request \in PullRequests :
                AsksFor(request, k) =>
                    \A r \in pullData(variant, store, log, store[k].user, request, now) :
                        CarriesDeleted(r, k)

\* C12 amended: every such pull whose page holds all the documents it
\* selects returns the deleted document, flagged deleted.
C12_DeletionPulledOnePage ==
    \A k \in DOMAIN store :
        store[k]._isDeleted =>
            \A request \in PullRequests :
                (AsksFor(request, k) /\ OnePage(store[k].user, request)) =>
                    \A r \in pullData(variant, store, log, store[k].user, request, now) :
                        CarriesDeleted(r, k)

\* C12 witness: a pull has just returned the one document of the caller,
\* soft-deleted after the time it was created
C12_Witness ==
    /\ last.op = "pull" /\ last.accepted = 1
    /\ Cardinality({k \in DOMAIN store : store[k].user = last.user}) = 1
    /\ \E k \in DOMAIN store :
          /\ store[k].user = last.user /\ store[k]._isDeleted
          /\ store[k]._lastModified > store[k].createdAt

\* the store after the first k entities of batch b have each been processed
\* on their own, an entity that raised leaving it as it was
RECURSIVE Applied(_, _, _)
Applied(u, b, k) ==
    IF k = 0 THEN store
    ELSE processEntity(variant, Applied(u, b, k - 1), u, b[k], now).store

\* processing the k-th entity of batch b, after those before it, raises
Raises(u, b, k) == processEntity(variant, Applied(u, b, k - 1), u, b[k], now).threw

\* C13: a push whose k-th entity raises fails, processes no entity after
\* the k-th, and leaves the store as the entities before the k-th made it.
C13_PushFailsFast ==
    [][\A u \in Users, b \in MixedBatches :
          PushData(u, b) =>
              \A k \in DOMAIN b :
                  (Raises(u, b, k) /\ \A j \in 1..(k - 1) : ~Raises(u, b, j)) =>
                      /\ last'.threw
                      /\ Len(last'.did) = k
                      /\ store' = Applied(u, b, k - 1)]_vars

\* the outcome bulk push reports for an entity: success, conflict or error
Outcome(result) ==
    IF ~result.success THEN "error" ELSE IF result.conflict THEN "conflict" ELSE "success"

\* C14: a bulk push reports one outcome per entity, in the order of the
\* batch, and every entity is processed and applied whether or not one
\* before it raised.
C14_BulkIsBestEffort ==
    \A u \in Users, b \in MixedBatches :
        LET r == bulkSync(variant, store, u, b, now)
        IN  ~r.overflow =>
                /\ Len(r.results) = Len(b)
                /\ r.store = Applied(u, b, Len(b))
                /\ \A k \in DOMAIN b :
                      LET one == processEntity(variant, Applied(u, b, k - 1), u, b[k], now)
                      IN  /\ r.results[k].entity._id = b[k]._id
                          /\ r.results[k].entity._entityType = b[k]._entityType
                          /\ Outcome(r.results[k]) =
                                (IF one.threw THEN "error"
                                 ELSE IF one.conflict THEN "conflict" ELSE "success")

\* C14 witness: a bulk push has just reported an error for its first entity
\* and created the document of its second
C14_Witness ==
    /\ last.op = "bulk" /\ ~last.threw
    /\ last.did = <<"unknown-type", "create">> /\ last.accepted = 1
    /\ \E k \in DOMAIN store : store[k].user = last.user

\* the step is a resolveConflict call that succeeded
Resolved == last'.op = "resolve" /\ ops' = ops + 1 /\ ~last'.threw

\* C15: a successful resolveConflict leaves the document with the stored
\* version plus one, _syncStatus synced, _lastModified the server's time and
\* no _conflictData, whatever the resolution.
C15_ResolveStampsRecord ==
    [][Resolved =>
          /\ store'[last'.key]._version = store[last'.key]._version + 1
          /\ store'[last'.key]._syncStatus = "synced"
          /\ store'[last'.key]._lastModified = now
          /\ ~Has(store'[last'.key], "_conflictData")]_vars

\* the request names a stored document of user u
ResolveTarget(u, request) ==
    /\ ModelOf(variant, request.entityType) # ""
    /\ Found(store, ModelOf(variant, request.entityType), request.entityId, u)

\* the stored document a resolve request names
Target(request) == store[<<ModelOf(variant, request.entityType), request.entityId>>]

\* C16: every resolveConflict on a stored document, with or without a
\* _conflictData snapshot, succeeds and appends one audit entry with the id,
\* the type, the local and the server snapshot, the resolution and the
\* merged data; getConflicts then returns it.
C16_ResolveAppendsAudit ==
    [][\A u \in Users, request \in ResolveRequests :
          (ResolveConflict(u, request) /\ ResolveTarget(u, request)) =>
              /\ ~last'.threw
              /\ Len(log') = Len(log) + 1
              /\ SubSeq(log', 1, Len(log)) = log
              /\ LET entry == log'[Len(log')]
                 IN  /\ entry.user = u
                     /\ entry.entityId = request.entityId
                     /\ entry.entityType = request.entityType
                     /\ entry.resolution = request.resolution
                     /\ Rest(entry.localData, {"_id"}) = Target(request)
                     /\ Has(Target(request), "_conflictData") =>
                           entry.serverData = Target(request)._conflictData
                     /\ Has(request, "mergedData") =>
                           entry.mergedData = request.mergedData
                     /\ getConflicts(variant, log', u)[1] = entry]_vars

\* C17: resolveConflict with resolution server on a document holding a
\* snapshot S gives the document the fields of S, raises its version by one,
\* removes _conflictData, and getConflicts then holds a new entry with
\* resolution server.
C17_ServerRestoresSnapshot ==
    [][\A u \in Users, request \in ResolveRequests :
          (/\ ResolveConflict(u, request)
           /\ ResolveTarget(u, request)
           /\ request.resolution = "server"
           /\ Has(Target(request), "_conflictData")) =>
              LET S == Target(request)._conflictData
                  k == <<ModelOf(variant, request.entityType), request.entityId>>
              IN  /\ \A f \in DOMAIN S : Has(store'[k], f) /\ store'[k][f] = S[f]
                  /\ store'[k]._version = store[k]._version + 1
                  /\ ~Has(store'[k], "_conflictData")
                  /\ Len(getConflicts(variant, log', u)) = Len(getConflicts(variant, log, u)) + 1
                  /\ getConflicts(variant, log', u)[1].resolution = "server"]_vars

\* C18: resolveConflict for an id the caller has no document of fails with
\* a not-found error, answered 404, and leaves the store and the audit log
\* as they were.
C18_ResolveMissingIsNotFound ==
    [][\A u \in Users, request \in ResolveRequests :
          (/\ ResolveConflict(u, request)
           /\ ModelOf(variant, request.entityType) # ""
           /\ ~ResolveTarget(u, request)) =>
              /\ last'.threw
              /\ resolveConflictResponse(
                     variant, resolveConflict(variant, store, log, u, request, now)).status = 404
              /\ store' = store
              /\ log' = log]_vars

C20_CleanupRemovesOldOwn ==
    \A u \in Users, d \in Days :
        LET kept == cleanupOldSyncData(log, u, d, now)
        IN  /\ \A b \in Users \ {u} : AuditOf(kept, b) = AuditOf(log, b)
            /\ AuditOf(kept, u) = SelectSeq(AuditOf(log, u), LAMBDA c : c.timestamp >= now - d)
            /\ Len(kept) <= Len(log)

\* C20 witness: a cleanup has just removed one audit entry of the caller and
\* kept a newer one
C20_Witness ==
    /\ last.op = "cleanup" /\ last.accepted = 1
    /\ \E n \in DOMAIN log : log[n].user = last.user /\ log[n].timestamp >= now - MaxDays

\* the stored records, each named by its owner, its collection and its _id
Records(st) == {<<st[k].user, k>> : k \in DOMAIN st}

\* C21: no push, bulk push or resolveConflict removes a record: every record
\* stored before a call, named by owner and id, is stored after it.
C21_RecordsOnlyGrow ==
    [][Records(store) \subseteq Records(store')]_vars

\* the place of a step of device d among the steps taken, 0 when not taken
Pos(d, kind) ==
    IF \E n \in DOMAIN calls.events : calls.events[n] = <<d, kind>>
    THEN CHOOSE n \in DOMAIN calls.events : calls.events[n] = <<d, kind>>
    ELSE 0

\* the stored document the push of device d names
RaceKey(d) == <<ModelOf(variant, calls.of[d].entity._entityType), calls.of[d].entity._id>>

\* devices a and b pushed the same document of one user, both found it and
\* passed the conflict check before either wrote, and a wrote before b
Raced(a, b) ==
    /\ calls.of[a].pc = "done" /\ calls.of[b].pc = "done"
    /\ calls.of[a].branch = "update" /\ calls.of[b].branch = "update"
    /\ calls.of[a].user = calls.of[b].user
    /\ RaceKey(a) = RaceKey(b)
    /\ Pos(a, "read") < Pos(a, "write") /\ Pos(b, "read") < Pos(a, "write")
    /\ Pos(a, "write") < Pos(b, "write")

\* C22: when two pushes of one stored document both pass the conflict check
\* before either writes, neither is answered as a conflict and the document
\* ends with the payload and the version of the later write alone.
C22_LostUpdate ==
    \A a, b \in Devices :
        Raced(a, b) =>
            LET late == calls.of[b].entity
                doc == store[RaceKey(b)]
            IN  /\ doc.user = calls.of[b].user
                /\ doc.body = late.body
                /\ doc._version = handleUpdateVersion(variant, UpdateVersionArg(variant, late))

\* C22 witness: two devices raced with different payloads, the document holds
\* the later one, and the earlier push, made again now, would be a conflict
C22_Witness ==
    \E a, b \in Devices :
        /\ Raced(a, b)
        /\ calls.of[a].entity.body # calls.of[b].entity.body
        /\ store[RaceKey(b)].body = calls.of[b].entity.body
        /\ processRead(variant, store, calls.of[a].user, calls.of[a].entity) = "conflict"

\* C23: whatever the order in which the database calls of concurrent
\* getSyncMetadata, updateSyncMetadata, pull and forceSync requests resolve,
\* the collection holds at most one SyncMetadata document per owner, and no
\* step removes a document from it.
C23_OneMetadataPerOwner ==
    /\ [](\A u \in Users : Cardinality(metaFind(metadatas, u)) <= 1)
    /\ [][Len(metadatas') >= Len(metadatas)]_vars

\* C23 witness: two getSyncMetadata calls for one owner both found nothing,
\* one created the document and the other was refused by the unique index
C23_Witness ==
    /\ \E a, b \in Devices :
          /\ calls.of[a].op = "get" /\ calls.of[a].branch = "created"
          /\ calls.of[b].op = "get" /\ calls.of[b].branch = "duplicate"
          /\ calls.of[a].user = calls.of[b].user
          /\ Cardinality(metaFind(metadatas, calls.of[a].user)) = 1
    /\ Len(metadatas) = 1

\* the step is a push, a bulk push or a pull that succeeded, no database
\* call of it having rejected
Succeeded ==
    /\ last'.op \in {"push", "bulk", "pull"}
    /\ ops' = ops + 1
    /\ ~last'.threw
    /\ \A n \in DOMAIN last'.did : last'.did[n] # "unrecorded"

\* C24: every successful pull and every successful push or bulk push leaves
\* the caller with a SyncMetadata record written at the time of the call.
C24_MetadataUpdatedAfterSync ==
    [][Succeeded =>
          /\ last'.user \in DOMAIN meta'
          /\ meta'[last'.user].updatedAt = now]_vars

\* C25: after a push or bulk push that reports the entity as a conflict,
\* getConflicts of the caller lists an entry for that entity which holds the
\* incoming entity and the stored document.
C25_ConflictIsLogged ==
    [][\A u \in Users, e \in PushEntities :
          (/\ PushData(u, <<e>>) \/ BulkSync(u, <<e>>)
           /\ PushConflict(PushOne(u, e))) =>
              \E n \in DOMAIN getConflicts(variant, log', u) :
                  LET c == getConflicts(variant, log', u)[n]
                  IN  /\ c.entityId = e._id
                      /\ c.localData = e
                      /\ c.serverData = Stored(e)]_vars

\* C26: after a push that reports the entity as a conflict, the stored
\* document carries the snapshot of the document that won as _conflictData,
\* so that a resolveConflict with resolution server has it to restore.
C26_ConflictKeepsSnapshot ==
    [][\A u \in Users, e \in BulkEntities :
          (PushData(u, <<e>>) /\ PushConflict(PushOne(u, e))) =>
              Has(store'[<<ModelOf(variant, e._entityType), e._id>>], "_conflictData")]_vars

\* batch b names one document twice, under an _id no document has: its first
\* entity creates it and its second, not older than the server's time,
\* updates it
CreateThenUpdate(u, b) ==
    /\ Len(b) = 2
    /\ b[1]._id = b[2]._id /\ b[1]._entityType = b[2]._entityType
    /\ CreateCase(u, b[1])
    /\ <<ModelOf(variant, b[1]._entityType), b[1]._id>> \notin DOMAIN store
    /\ ~Truthy(b[2], "_isDeleted")
    /\ Has(b[2], "_lastModified") /\ b[2]._lastModified >= now

\* C27: a push or bulk push leaves the store as its entities, each processed
\* in turn on what the ones before it left, make it; a batch that creates a
\* document and then updates it leaves one more document, at version 2.
C27_BatchInOrder ==
    \A u \in Users, b \in MixedBatches :
        LET p == pushData(variant, store, u, b, now)
            r == bulkSync(variant, store, u, b, now)
        IN  (~p.overflow /\ ~r.overflow) =>
                /\ (\A k \in DOMAIN b : ~Raises(u, b, k)) =>
                       /\ p.store = Applied(u, b, Len(b))
                       /\ r.store = Applied(u, b, Len(b))
                /\ CreateThenUpdate(u, b) =>
                       /\ Cardinality(DOMAIN p.store) = Cardinality(DOMAIN store) + 1
                       /\ Cardinality(DOMAIN r.store) = Cardinality(DOMAIN store) + 1
                       /\ p.store[<<ModelOf(variant, b[1]._entityType), b[1]._id>>]._version = 2
                       /\ r.store[<<ModelOf(variant, b[1]._entityType), b[1]._id>>]._version = 2

\* the payload fields of a document
Payload(doc) == [f \in PayloadFields \cap DOMAIN doc |-> doc[f]]

\* C28: a successful resolveConflict with resolution local leaves every
\* payload field of the document as it was, and one with resolution merge
\* and mergedData leaves the payload of the document equal to mergedData.
C28_LocalKeepsMergeOverwrites ==
    [][\A u \in Users, request \in PayloadRequests :
          (/\ ResolveConflict(u, request)
           /\ ResolveTarget(u, request)
           /\ ~last'.threw) =>
              LET k == <<ModelOf(variant, request.entityType), request.entityId>>
              IN  /\ request.resolution = "local" => Payload(store'[k]) = Payload(store[k])
                  /\ (request.resolution = "merge" /\ Has(request, "mergedData")) =>
                         Payload(store'[k]) = request.mergedData]_vars

\* the type pullData queries last: categories unless the request names
\* expenses alone
LastType(request) == IF "category" \in pullTypes(variant, request) THEN "category" ELSE "expense"

\* the number of entities of type t a pull response carries: the length of
\* the page fetched for t
PageLength(r, t) == Cardinality({n \in DOMAIN r.entities : r.entities[n]._entityType = t})

\* C29: hasMore is true exactly when the page fetched for the type queried
\* last holds limit documents, whatever the page of the other type holds.
C29_HasMoreFromLastPage ==
    \A u \in Users, request \in PullRequests :
        \A r \in pullData(variant, store, log, u, request, now) :
            r.hasMore <=> PageLength(r, LastType(request)) = pullLimit(request)

\* the metadata a pull of user u with this request is to leave
Refreshed(u, request) ==
    /\ u \in DOMAIN meta'
    /\ meta'[u].pendingCount = 0
    /\ meta'[u].totalEntities = Cardinality(SelectedByCursor(u, request))
    /\ meta'[u].conflictCount = last'.conflicts
    /\ last'.conflicts = Len(getConflicts(variant, log, u))

NewestFirst(r) ==
    \A n \in 1..(Len(r.entities) - 1) :
        r.entities[n]._lastModified >= r.entities[n + 1]._lastModified

\* C31: the entities a pull returns are ordered by _lastModified descending
\* across the entity types together: of two adjacent entities the earlier
\* one's _lastModified is at least the later one's, whatever their types.
C31_PullOrderedAcrossTypes ==
    \A u \in Users, request \in PullRequests :
        \A r \in pullData(variant, store, log, u, request, now) : NewestFirst(r)

\* C31 witness: a pull has just returned the caller's two documents, an
\* expense and a category modified after it, which the concatenation of the
\* two pages lists oldest first
C31_Witness ==
    /\ last.op = "pull" /\ last.accepted = 2
    /\ \E e, c \in DOMAIN store :
          /\ e[1] = "expense" /\ c[1] = "category"
          /\ {k \in DOMAIN store : store[k].user = last.user} = {e, c}
          /\ store[e]._lastModified < store[c]._lastModified

\* the sync requests of the user of request n that the limiter admitted
\* before it, from time `since` on
AdmittedBefore(n, since) ==
    {m \in 1..(n - 1) :
        /\ limiter.seen[m].user = limiter.seen[n].user
        /\ limiter.seen[m].sync /\ limiter.seen[m].admitted
        /\ limiter.seen[m].at >= since}

\* C32: the limiter counts per user.  Within one window a user's sync
\* requests are admitted up to maxRequests and answered 429 beyond that: a
\* request is admitted only if fewer than maxRequests of the user's own were
\* admitted at the same instant; and a user is never turned away for what
\* others sent: a request is answered 429 only if maxRequests of the user's
\* own were admitted within the last windowMs.
C32_LimitPerUser ==
    \A n \in DOMAIN limiter.seen :
        LET q == limiter.seen[n]
        IN  /\ q.sync /\ q.admitted =>
                  Cardinality(AdmittedBefore(n, q.at)) < maxRequests
            /\ ~q.admitted =>
                  /\ q.sync
                  /\ Cardinality(AdmittedBefore(n, q.at - windowMs)) >= maxRequests

\* C33: resolveConflict is all or nothing: a call that reports failure
\* leaves the stored entity and the conflict log as they were before it; the
\* entity is never left updated without its audit entry.
C33_ResolveAllOrNothing ==
    \A u \in Users, request \in ResolveRequests :
        LET r == resolveConflict(variant, store, log, u, request, now)
        IN  r.threw => r.store = store /\ r.log = log

\* C34: tombstones are sticky: once a document is flagged deleted, no later
\* push, bulk push or resolveConflict that succeeds sets the flag back to
\* false, whatever _isDeleted the incoming payload, the snapshot or
\* mergedData carries.
C34_TombstoneSticky ==
    [][~last'.threw =>
          \A k \in DOMAIN store : store[k]._isDeleted => store'[k]._isDeleted]_vars

\* C35: the owner of a stored document never changes after creation: no
\* push whose payload carries a user field, and no resolveConflict whose
\* mergedData or snapshot carries one, gives a document to another user.
C35_OwnerNeverChanges ==
    [][\A k \in DOMAIN store : store'[k].user = store[k].user]_vars

\* C36: the validators and the engine agree on the entity types: a push or
\* a resolveConflict of a type the request validators accept is never
\* turned down as an unknown entity type.
C36_ValidTypesAreKnown ==
    /\ \A u \in Users, e \in PushEntities :
          e._entityType \in ValidEntityTypes =>
              processEntity(variant, store, u, e, now).did # "unknown-type"
    /\ \A u \in Users, request \in ResolveRequests :
          request.entityType \in ValidEntityTypes =>
              LET r == resolveConflict(variant, store, log, u, request, now)
              IN  ~(r.threw /\ ~r.notFound /\ ModelOf(variant, request.entityType) = "")

\* device d's forced sync has set the flag and its pull has not finished
Pulling(d) ==
    /\ calls.of[d].op = "force"
    /\ calls.of[d].pc \in {"match", "insert"}
    /\ calls.of[d].branch = "written"
    /\ Len(calls.of[d].todo) = 2

\* C37: with overlapping forced syncs of one owner, the owner's isSyncing
\* flag is true whenever one of them is between setting the flag and the
\* end of its pull: the first to finish does not clear it under the other.
C37_SyncingWhileAnyPulls ==
    \A d \in Devices :
        Pulling(d) =>
            \E n \in metaFind(metadatas, calls.of[d].user) : metadatas[n].isSyncing

\* the entities device d has received, in order
Received(d) ==
    LET mine == SelectSeq(calls.events, LAMBDA e : e[1] = d)
    IN  [n \in DOMAIN mine |-> mine[n][2]]

\* C38: paging is complete: with no write between the calls, pulling with
\* one cursor, one entity type and one limit at offsets 0, limit, 2 * limit
\* and so on until a call returns no entity yields every document of the
\* owner that the cursor selects exactly once.
C38_PagingComplete ==
    \A d \in Devices :
        (calls.of[d].op = "pull" /\ calls.of[d].pc = "done") =>
            LET selected == SelectedByCursor(calls.of[d].user, calls.of[d].entity)
                got == Received(d)
            IN  /\ {got[n] : n \in DOMAIN got} = selected
                /\ Len(got) = Cardinality(selected)

====
